---- MODULE Spec2Model ----
(***************************************************************************)
(* Text -> Emotion Analyzer (app_text_emotion.py).                         *)
(*                                                                         *)
(* The script is re-run from top to bottom for every user interaction of   *)
(* a session.  One run = widget values, the "Predict emotion" section,     *)
(* the log display ("Actions") section and the "Clear saved CSV" section.  *)
(* Sessions share one file, predictions_log.csv, without any locking.      *)
(*                                                                         *)
(* Strings are sequences of characters; a character is a TLA+ string.      *)
(* The log file is a sequence of lines (CSV records); a line is the        *)
(* sequence of characters written for it, terminator included.             *)
(***************************************************************************)
EXTENDS Integers, Sequences, FiniteSets, TLC

VARIABLES
    fileExists,    \* os.path.exists(LOG_CSV)
    fileRows,      \* the lines of LOG_CSV (<<>> when absent or empty)
    pc,            \* pc[s]: where session s is in its current run of the script
    button,        \* button[s]: the button clicked for the run ("none" when another widget changed)
    prevButton,    \* prevButton[s]: the button of the run before
    lang,          \* lang[s]: the selectbox value
    text,          \* text[s]: the text_area value
    model_name,    \* model_name[s]
    preds_sorted,  \* preds_sorted[s] of the run (<<>> when no prediction was made)
    emoji,         \* emoji[s]: label_to_emoji(top["label"]) shown by the run
    row,           \* row[s]: the CSV line save_prediction is writing
    fpos,          \* fpos[s]: the position (in lines) of the open file handle
    orphan,        \* orphan[s]: the open handle's file was unlinked by os.remove
    ev,            \* ev[s]: what the run did so far, in order (calls made, messages shown)
    logged,        \* the lines written by completed save_prediction calls since the last removal
    probe          \* argument and result of a function applied on its own

vars == <<fileExists, fileRows, pc, button, prevButton, lang, text, model_name,
          preds_sorted, emoji, row, fpos, orphan, ev, logged, probe>>

(***************************************************************************)
(* Bounds of the model.                                                    *)
(***************************************************************************)
MaxRows == 2        \* a prediction is started only while the log has at most this many lines
MaxSharedRows == 1  \* the same, for sessions running side by side
MaxTime == 2        \* datetime.now() returns one of 1..MaxTime
MaxScore == 2       \* scores are the levels 0..MaxScore
MaxPreds == 4       \* the model returns at most this many (label, score) pairs
MaxLabelLen == 3    \* labels given to label_to_emoji on its own
MaxTextLen == 2     \* texts given to the model selection on its own

Sessions == {1, 2}

(***************************************************************************)
(* Characters.                                                             *)
(***************************************************************************)
Quote == "\""
Comma == ","
Newline == "\n"
Space == " "
Tab == "\t"
\* U+017F LATIN SMALL LETTER LONG S: str.lower() keeps it, str.upper() gives "S"
LongS == "U+017F"

UpperAlpha == <<"A","B","C","D","E","F","G","H","I","J","K","L","M",
                "N","O","P","Q","R","S","T","U","V","W","X","Y","Z">>
LowerAlpha == <<"a","b","c","d","e","f","g","h","i","j","k","l","m",
                "n","o","p","q","r","s","t","u","v","w","x","y","z">>

Range(f) == {f[i] : i \in DOMAIN f}

SeqsUpTo(S, n) == UNION {[1..k -> S] : k \in 0..n}

\* str.lower(), one character
LowerChar(c) ==
    IF \E i \in 1..26 : UpperAlpha[i] = c
    THEN LowerAlpha[CHOOSE i \in 1..26 : UpperAlpha[i] = c]
    ELSE c

\* str.upper(), one character
UpperChar(c) ==
    IF \E i \in 1..26 : LowerAlpha[i] = c
    THEN UpperAlpha[CHOOSE i \in 1..26 : LowerAlpha[i] = c]
    ELSE IF c = LongS THEN "S" ELSE c

lower(str) == [i \in 1..Len(str) |-> LowerChar(str[i])]
upper(str) == [i \in 1..Len(str) |-> UpperChar(str[i])]

\* every character of str is an ASCII character (U+017F is the one that is not)
IsAscii(str) == \A i \in 1..Len(str) : str[i] # LongS

Whitespace == {Space, Tab, Newline}

\* str.strip(): leading and trailing whitespace removed
RECURSIVE lstrip(_)
lstrip(str) ==
    IF str # <<>> /\ Head(str) \in Whitespace THEN lstrip(Tail(str)) ELSE str

RECURSIVE rstrip(_)
rstrip(str) ==
    IF str # <<>> /\ str[Len(str)] \in Whitespace
    THEN rstrip(SubSeq(str, 1, Len(str) - 1))
    ELSE str

strip(str) == rstrip(lstrip(str))

\* str.startswith(prefix)
startswith(str, prefix) ==
    /\ Len(str) >= Len(prefix)
    /\ SubSeq(str, 1, Len(prefix)) = prefix

(***************************************************************************)
(* Models and the model selector.                                          *)
(***************************************************************************)
EN_MODEL == "bhadresh-savani/distilbert-base-uncased-emotion"
MULTI_MODEL == "cardiffnlp/twitter-xlm-roberta-base-emotion"

English == <<"E","n","g","l","i","s","h">>
EnglishFast == English \o <<" ","(","f","a","s","t",")">>
HindiMultilingual == <<"H","i","n","d","i"," ","/"," ",
                       "M","u","l","t","i","l","i","n","g","u","a","l">>

\* the options of the selectbox
LangOptions == {EnglishFast, HindiMultilingual}

SelectSwapped(l) == IF startswith(l, English) THEN MULTI_MODEL ELSE EN_MODEL

\* model_name = EN_MODEL if lang.startswith("English") else MULTI_MODEL
SelectModel(l) == IF startswith(l, English) THEN EN_MODEL ELSE MULTI_MODEL

(***************************************************************************)
(* label_to_emoji.                                                         *)
(***************************************************************************)
DefaultEmoji == "blue-square"

EMOJI_KEYS == <<
    <<"j","o","y">>,
    <<"h","a","p","p","y">>,
    <<"s","a","d","n","e","s","s">>,
    <<"s","a","d">>,
    <<"a","n","g","e","r">>,
    <<"a","n","g","e","r","/","a","n","n","o","y","a","n","c","e">>,
    <<"d","i","s","g","u","s","t">>,
    <<"f","e","a","r">>,
    <<"s","u","r","p","r","i","s","e">>,
    <<"n","e","u","t","r","a","l">>,
    <<"l","o","v","e">>,
    <<"e","n","t","h","u","s","i","a","s","m">> >>

EMOJI_VALUES == <<"grin", "grin", "cry", "cry", "rage", "rage", "nauseated",
                  "fearful", "astonished", "neutral-face", "heart", "star-struck">>

\* EMOJI_MAP.get(key, default)
EmojiGet(key, default) ==
    IF \E i \in DOMAIN EMOJI_KEYS : EMOJI_KEYS[i] = key
    THEN EMOJI_VALUES[CHOOSE i \in DOMAIN EMOJI_KEYS : EMOJI_KEYS[i] = key]
    ELSE default

label_to_emoji_exact(label) == EmojiGet(label, DefaultEmoji)

label_to_emoji(label) == EmojiGet(lower(label), DefaultEmoji)

(***************************************************************************)
(* The ranking: sorted(preds, key=score, reverse=True), top3, top.         *)
(* list.sort with reverse=True reverses the list, sorts it stably in       *)
(* ascending order and reverses the result.                                *)
(***************************************************************************)
Reverse(s) == [i \in 1..Len(s) |-> s[Len(s) + 1 - i]]

\* x is put behind every element whose score is not larger (stable)
InsertStable(x, s) ==
    LET larger == {i \in 1..Len(s) : s[i].score > x.score}
        p == IF larger = {} THEN Len(s) + 1
             ELSE CHOOSE i \in larger : \A j \in larger : i <= j
    IN SubSeq(s, 1, p - 1) \o <<x>> \o SubSeq(s, p, Len(s))

RECURSIVE StableSortAsc(_)
StableSortAsc(s) ==
    IF s = <<>> THEN <<>>
    ELSE InsertStable(s[Len(s)], StableSortAsc(SubSeq(s, 1, Len(s) - 1)))

SortedNoPreReverse(preds) == Reverse(StableSortAsc(preds))

Sorted(preds) == Reverse(StableSortAsc(Reverse(preds)))

\* preds_sorted[:3]
Top3(ps) == SubSeq(ps, 1, IF Len(ps) < 3 THEN Len(ps) ELSE 3)

\* top3[0]
Top(ps) == Top3(ps)[1]

(***************************************************************************)
(* The CSV writer (DataFrame.to_csv) and a CSV reader.                     *)
(***************************************************************************)
Digits == <<"0","1","2","3","4","5","6","7","8","9">>

\* datetime.datetime.now().isoformat(), for the clock reading t
IsoFormat(t) == <<"T", Digits[t + 1]>>

\* the text written for the float of score level n (0.0, 0.1, ...)
FloatRepr(n) == <<"0", ".", Digits[n + 1]>>

ParseFloat(str) ==
    IF \E n \in 0..9 : FloatRepr(n) = str
    THEN CHOOSE n \in 0..9 : FloatRepr(n) = str
    ELSE -1

NeedsQuoting(field) ==
    \E i \in 1..Len(field) : field[i] \in {Comma, Quote, Newline}

\* the positions of the quote characters of str
QuotePositions(str) == {i \in 1..Len(str) : str[i] = Quote}

\* the k-th smallest element of a set of numbers
Nth(S, k) == CHOOSE i \in S : Cardinality({j \in S : j < i}) = k - 1

\* every quote character written twice: the character at k of the result is
\* the one at k less the number of second copies up to k
DoubleQuotes(field) ==
    LET qs == QuotePositions(field)
        second == {q + Cardinality({p \in qs : p <= q}) : q \in qs}
    IN [k \in 1..(Len(field) + Cardinality(qs)) |->
          field[k - Cardinality({x \in second : x <= k})]]

\* one cell, quoted when it holds a delimiter, a quote or a line break
CsvField(field) ==
    IF NeedsQuoting(field)
    THEN <<Quote>> \o DoubleQuotes(field) \o <<Quote>>
    ELSE field

RECURSIVE CsvJoin(_)
CsvJoin(fields) ==
    IF Len(fields) = 1 THEN CsvField(fields[1])
    ELSE CsvField(fields[1]) \o <<Comma>> \o CsvJoin(Tail(fields))

\* one record as written, line terminator included
CsvLine(fields) == CsvJoin(fields) \o <<Newline>>

\* a cell as read: the enclosing quotes dropped, doubled quotes read as one.
\* In a quoted cell the quotes at odd places among the quotes (the opening one,
\* the second of each pair) are dropped, and so is the closing one.
CsvUnquote(cell) ==
    IF cell = <<>> \/ cell[1] # Quote THEN cell
    ELSE LET qs == QuotePositions(cell)
             before == [q \in qs |-> Cardinality({p \in qs : p < q})]
             dropped == {q \in qs : \/ before[q] % 2 = 0
                                    \/ q = Len(cell)
                                    \/ cell[q + 1] # Quote}
             \* the kept characters before a dropped one
             keptBefore == [d \in dropped |-> d - 1 - Cardinality({e \in dropped : e < d})]
         IN [k \in 1..(Len(cell) - Cardinality(dropped)) |->
               cell[k + Cardinality({d \in dropped : keptBefore[d] < k})]]

\* the cells of one record of the file: delimiters and the line end count
\* only outside quotes
CsvReadLine(line) ==
    LET qs == QuotePositions(line)
        outside(i) == Cardinality({q \in qs : q < i}) % 2 = 0
        ends == {i \in 1..Len(line) : line[i] = Newline /\ outside(i)}
        end == IF ends = {} THEN Len(line) + 1 ELSE Nth(ends, 1)
        seps == {i \in 1..(end - 1) : line[i] = Comma /\ outside(i)}
        n == Cardinality(seps) + 1
        cut(k) == IF k = 0 THEN 0 ELSE IF k = n THEN end ELSE Nth(seps, k)
    IN [k \in 1..n |-> CsvUnquote(SubSeq(line, cut(k - 1) + 1, cut(k) - 1))]

\* timestamp,text,language,top_label,top_score,all_scores
HeaderLine ==
    CsvLine(<< <<"t","i","m","e","s","t","a","m","p">>,
               <<"t","e","x","t">>,
               <<"l","a","n","g","u","a","g","e">>,
               <<"t","o","p","_","l","a","b","e","l">>,
               <<"t","o","p","_","s","c","o","r","e">> ,
               <<"a","l","l","_","s","c","o","r","e","s">> >>)

(***************************************************************************)
(* json.dumps(all_scores, ensure_ascii=False) and json.loads.              *)
(***************************************************************************)
LabelKey == <<Quote, "l","a","b","e","l", Quote, ":", Space>>
ScoreKey == <<Quote, "s","c","o","r","e", Quote, ":", Space>>

JsonObject(p) ==
    <<"{">> \o LabelKey \o <<Quote>> \o p.label \o <<Quote>>
            \o <<Comma, Space>> \o ScoreKey \o FloatRepr(p.score) \o <<"}">>

RECURSIVE JsonItems(_)
JsonItems(ps) ==
    IF ps = <<>> THEN <<>>
    ELSE IF Len(ps) = 1 THEN JsonObject(ps[1])
    ELSE JsonObject(ps[1]) \o <<Comma, Space>> \o JsonItems(Tail(ps))

JsonDumps(ps) == <<"[">> \o JsonItems(ps) \o <<"]">>

\* the least j >= i with s[j] = c, Len(s) + 1 when there is none
IndexFrom(s, i, c) ==
    IF \E j \in i..Len(s) : s[j] = c
    THEN CHOOSE j \in i..Len(s) : s[j] = c /\ \A k \in i..(j - 1) : s[k] # c
    ELSE Len(s) + 1

JsonInvalid == << [label |-> <<"?">>, score |-> -1] >>

\* the objects of j from position i on (i is at a "{")
RECURSIVE JsonReadItems(_, _, _)
JsonReadItems(j, i, acc) ==
    LET ls == i + 1 + Len(LabelKey) + 1          \* first character of the label
        le == IndexFrom(j, ls, Quote)            \* its closing quote
        ss == le + 3 + Len(ScoreKey)             \* first character of the score
        se == IndexFrom(j, ss, "}")              \* the closing brace
    IN IF \/ se > Len(j)
          \/ j[i] # "{"
          \/ SubSeq(j, i + 1, ls - 1) # LabelKey \o <<Quote>>
          \/ SubSeq(j, le, ss - 1) # <<Quote, Comma, Space>> \o ScoreKey
       THEN JsonInvalid
       ELSE LET item == [label |-> SubSeq(j, ls, le - 1),
                         score |-> ParseFloat(SubSeq(j, ss, se - 1))]
            IN IF se + 1 = Len(j) /\ j[se + 1] = "]" THEN Append(acc, item)
               ELSE IF se + 3 <= Len(j) /\ SubSeq(j, se + 1, se + 2) = <<Comma, Space>>
                    THEN JsonReadItems(j, se + 3, Append(acc, item))
                    ELSE JsonInvalid

JsonLoads(j) ==
    IF j = <<"[", "]">> THEN <<>>
    ELSE IF Len(j) < 2 \/ j[1] # "[" THEN JsonInvalid
    ELSE JsonReadItems(j, 2, <<>>)

(***************************************************************************)
(* save_prediction: the row and the line written for it.                   *)
(***************************************************************************)
RowFieldsTop3(now, txt, lng, top_label, top_score, all_scores) ==
    << IsoFormat(now), txt, lng, top_label, FloatRepr(top_score),
       JsonDumps(Top3(all_scores)) >>

\* timestamp, text, language, top_label, top_score, all_scores
RowFields(now, txt, lng, top_label, top_score, all_scores) ==
    << IsoFormat(now), txt, lng, top_label, FloatRepr(top_score),
       JsonDumps(all_scores) >>

RowLine(now, txt, lng, top_label, top_score, all_scores) ==
    CsvLine(RowFields(now, txt, lng, top_label, top_score, all_scores))

(***************************************************************************)
(* The log file.                                                           *)
(***************************************************************************)
\* what a read finds where nothing was written (a gap left by a truncation)
Hole == <<"NUL">>

\* a write of lines at position pos (counted in lines) of an open file
\* a write that puts the lines behind what the file holds, without a second header
WriteMerged(rows, pos, lines) ==
    rows \o (IF rows # <<>> /\ Head(rows) = HeaderLine
             THEN SelectSeq(lines, LAMBDA l : l # HeaderLine)
             ELSE lines)

WriteAt(rows, pos, lines) ==
    LET n == IF Len(rows) > pos + Len(lines) THEN Len(rows) ELSE pos + Len(lines)
    IN [i \in 1..n |->
          IF i > pos /\ i <= pos + Len(lines) THEN lines[i - pos]
          ELSE IF i <= Len(rows) THEN rows[i]
          ELSE Hole]

AppendWithHeader == TRUE

\* header=False of the mode="a" branch
AppendHeader == FALSE

\* os.path.exists(LOG_CSV), as save_prediction asks it
LogExists(exists) == exists

IsPrefix(a, b) == Len(a) <= Len(b) /\ SubSeq(b, 1, Len(a)) = a

Last(s) == s[Len(s)]

(***************************************************************************)
(* One run of the script by session s.                                     *)
(***************************************************************************)
NoText == <<>>
NoLang == <<>>

IsBlankNoStrip(txt) == txt = <<>>

\* not text.strip()
IsBlank(txt) == strip(txt) = <<>>

\* the session's locals once its run is over
EndRun(s) ==
    /\ lang' = [lang EXCEPT ![s] = NoLang]
    /\ text' = [text EXCEPT ![s] = NoText]
    /\ model_name' = [model_name EXCEPT ![s] = ""]
    /\ preds_sorted' = [preds_sorted EXCEPT ![s] = <<>>]
    /\ emoji' = [emoji EXCEPT ![s] = ""]
    /\ row' = [row EXCEPT ![s] = <<>>]
    /\ fpos' = [fpos EXCEPT ![s] = 0]
    /\ UNCHANGED prevButton

KeepLocals ==
    UNCHANGED <<lang, text, model_name, preds_sorted, emoji, row, fpos, prevButton>>

\* a widget changed or a button was clicked: the script runs again
StartRun(s, Buttons, Langs, Texts, maxRows) ==
    /\ pc[s] = "idle"
    /\ \E l \in Langs, t \in Texts, b \in Buttons :
          /\ b = "predict" => Len(fileRows) <= maxRows
          /\ lang' = [lang EXCEPT ![s] = l]
          /\ text' = [text EXCEPT ![s] = t]
          /\ button' = [button EXCEPT ![s] = b]
          /\ prevButton' = [prevButton EXCEPT ![s] = button[s]]
          /\ model_name' = [model_name EXCEPT ![s] = SelectModel(l)]
          /\ pc' = [pc EXCEPT ![s] = IF b = "predict" THEN "predict" ELSE "disp_check"]
    /\ ev' = [ev EXCEPT ![s] = <<>>]
    /\ UNCHANGED <<fileExists, fileRows, preds_sorted, emoji, row, fpos, orphan,
                   logged, probe>>

\* if st.button("Predict emotion"): the empty-input warning
PredictEmpty(s) ==
    /\ pc[s] = "predict"
    /\ IsBlank(text[s])
    /\ ev' = [ev EXCEPT ![s] = Append(@, "warning")]
    /\ pc' = [pc EXCEPT ![s] = "disp_check"]
    /\ KeepLocals
    /\ UNCHANGED <<fileExists, fileRows, button, orphan, logged, probe>>

\* pipe(text) raises: the run ends with the framework's error display
PredictFails(s) ==
    /\ pc[s] = "predict"
    /\ ~IsBlank(text[s])
    /\ ev' = [ev EXCEPT ![s] = @ \o <<"infer", "exception">>]
    /\ pc' = [pc EXCEPT ![s] = "idle"]
    /\ EndRun(s)
    /\ UNCHANGED <<fileExists, fileRows, button, orphan, logged, probe>>

\* pipe(text), the ranking, the display, and the row save_prediction builds
Predict(s, Preds, Times) ==
    /\ pc[s] = "predict"
    /\ ~IsBlank(text[s])
    /\ \E p \in Preds, now \in Times :
          LET ps == Sorted(p)
              top == Top(ps)
          IN /\ preds_sorted' = [preds_sorted EXCEPT ![s] = ps]
             /\ emoji' = [emoji EXCEPT ![s] = label_to_emoji(top.label)]
             /\ row' = [row EXCEPT ![s] =
                          RowLine(now, text[s], lang[s], top.label, top.score, ps)]
    /\ ev' = [ev EXCEPT ![s] = @ \o <<"infer", "show", "save">>]
    /\ pc' = [pc EXCEPT ![s] = "save_check"]
    /\ UNCHANGED <<fileExists, fileRows, button, prevButton, lang, text, model_name,
                   fpos, orphan, logged, probe>>

\* if not os.path.exists(LOG_CSV)
SaveCheck(s) ==
    /\ pc[s] = "save_check"
    /\ pc' = [pc EXCEPT ![s] = IF LogExists(fileExists) THEN "append_open"
                               ELSE "create_open"]
    /\ ev' = [ev EXCEPT ![s] = Append(@, IF LogExists(fileExists) THEN "append"
                                         ELSE "create")]
    /\ KeepLocals
    /\ UNCHANGED <<fileExists, fileRows, button, orphan, logged, probe>>

\* to_csv(LOG_CSV): open(LOG_CSV, "w") creates the file or truncates it
CreateOpen(s) ==
    /\ pc[s] = "create_open"
    /\ fileExists' = TRUE
    /\ fileRows' = <<>>
    /\ fpos' = [fpos EXCEPT ![s] = 0]
    /\ orphan' = [orphan EXCEPT ![s] = FALSE]
    /\ pc' = [pc EXCEPT ![s] = "create_write"]
    /\ UNCHANGED <<button, prevButton, lang, text, model_name, preds_sorted, emoji,
                   row, ev, logged, probe>>

\* the session's handle writes lines at its position; a handle whose file was
\* unlinked writes to a file no path names
HandleWrite(s, lines) ==
    /\ fileRows' = IF orphan[s] THEN fileRows ELSE WriteAt(fileRows, fpos[s], lines)
    /\ fpos' = [fpos EXCEPT ![s] = @ + Len(lines)]
    /\ UNCHANGED fileExists

\* save_prediction returns: st.success("Saved to log")
Saved(s) ==
    /\ ev' = [ev EXCEPT ![s] = Append(@, "saved")]
    /\ logged' = Append(logged, row[s])
    /\ pc' = [pc EXCEPT ![s] = "disp_check"]

\* to_csv(LOG_CSV): header and row reach the file in one write, or the header
\* first (a row larger than the write buffer)
CreateWrite(s) ==
    /\ pc[s] = "create_write"
    /\ \/ /\ HandleWrite(s, <<HeaderLine, row[s]>>)
          /\ Saved(s)
       \/ /\ HandleWrite(s, <<HeaderLine>>)
          /\ pc' = [pc EXCEPT ![s] = "create_row"]
          /\ UNCHANGED <<ev, logged>>
    /\ UNCHANGED <<button, prevButton, lang, text, model_name, preds_sorted, emoji,
                   row, orphan, probe>>

CreateRow(s) ==
    /\ pc[s] = "create_row"
    /\ HandleWrite(s, <<row[s]>>)
    /\ Saved(s)
    /\ UNCHANGED <<button, prevButton, lang, text, model_name, preds_sorted, emoji,
                   row, orphan, probe>>

\* to_csv(LOG_CSV, mode="a", header=False): open(LOG_CSV, "a") creates a missing file
AppendOpen(s) ==
    /\ pc[s] = "append_open"
    /\ fileExists' = TRUE
    /\ fileRows' = IF fileExists THEN fileRows ELSE <<>>
    /\ orphan' = [orphan EXCEPT ![s] = FALSE]
    /\ pc' = [pc EXCEPT ![s] = "append_write"]
    /\ KeepLocals
    /\ UNCHANGED <<button, ev, logged, probe>>

\* the write of an append-mode handle goes to the end of the file
AppendWrite(s) ==
    /\ pc[s] = "append_write"
    /\ fileRows' = IF orphan[s] THEN fileRows
                   ELSE fileRows \o (IF AppendHeader THEN <<HeaderLine>> ELSE <<>>)
                                 \o <<row[s]>>
    /\ Saved(s)
    /\ UNCHANGED <<fileExists, button, prevButton, lang, text, model_name,
                   preds_sorted, emoji, row, fpos, orphan, probe>>

(***************************************************************************)
(* The "Actions" column: the log's size and the download button.           *)
(***************************************************************************)
\* an exception no handler catches: the framework shows it and the run is over
Uncaught(s) ==
    /\ ev' = [ev EXCEPT ![s] = Append(@, "exception")]
    /\ pc' = [pc EXCEPT ![s] = "idle"]
    /\ EndRun(s)

DisplayErrorUncaught(s) == Uncaught(s)

\* except Exception as e: st.write("Could not load CSV log:", e)
DisplayError(s) ==
    /\ ev' = [ev EXCEPT ![s] = Append(@, "could_not_load")]
    /\ pc' = [pc EXCEPT ![s] = "clear_section"]
    /\ KeepLocals

\* if os.path.exists(LOG_CSV): ... else: st.write("No predictions saved yet.")
DispCheck(s) ==
    /\ pc[s] = "disp_check"
    /\ IF fileExists
       THEN /\ pc' = [pc EXCEPT ![s] = "disp_read"]
            /\ UNCHANGED ev
       ELSE /\ pc' = [pc EXCEPT ![s] = "clear_section"]
            /\ ev' = [ev EXCEPT ![s] = Append(@, "no_predictions")]
    /\ KeepLocals
    /\ UNCHANGED <<fileExists, fileRows, button, orphan, logged, probe>>

\* st.write(f"Total saved predictions: ...")
DisplayTotal(s) ==
    /\ ev' = [ev EXCEPT ![s] = Append(@, "total")]
    /\ pc' = [pc EXCEPT ![s] = "disp_download"]
    /\ KeepLocals

\* pd.read_csv(LOG_CSV) raises when the file is missing (FileNotFoundError) or
\* holds nothing (EmptyDataError); a file with a gap in it is read or refused
\* (ParserError), as its bytes fall; the total is shown otherwise
DispRead(s) ==
    /\ pc[s] = "disp_read"
    /\ IF ~fileExists \/ fileRows = <<>> THEN DisplayError(s)
       ELSE IF Hole \in Range(fileRows) THEN DisplayTotal(s) \/ DisplayError(s)
       ELSE DisplayTotal(s)
    /\ UNCHANGED <<fileExists, fileRows, button, orphan, logged, probe>>

\* st.download_button(data=open(LOG_CSV, "rb").read())
DispDownload(s) ==
    /\ pc[s] = "disp_download"
    /\ IF fileExists
       THEN /\ ev' = [ev EXCEPT ![s] = Append(@, "download")]
            /\ pc' = [pc EXCEPT ![s] = "clear_section"]
            /\ KeepLocals
       ELSE DisplayError(s)
    /\ UNCHANGED <<fileExists, fileRows, button, orphan, logged, probe>>

(***************************************************************************)
(* The "Clear saved CSV" button.                                           *)
(***************************************************************************)
\* if st.button("Clear saved CSV"): if os.path.exists(LOG_CSV): ... else: st.info(...)
ClearCheck(s) ==
    /\ pc[s] = "clear_section"
    /\ IF button[s] # "clear"
       THEN /\ pc' = [pc EXCEPT ![s] = "idle"]
            /\ EndRun(s)
            /\ UNCHANGED ev
       ELSE IF fileExists
       THEN /\ pc' = [pc EXCEPT ![s] = "clear_remove"]
            /\ KeepLocals
            /\ UNCHANGED ev
       ELSE /\ pc' = [pc EXCEPT ![s] = "idle"]
            /\ EndRun(s)
            /\ ev' = [ev EXCEPT ![s] = Append(@, "no_log_file")]
    /\ UNCHANGED <<fileExists, fileRows, button, orphan, logged, probe>>

RemoveKeepsFile == TRUE

\* what os.remove leaves of the path
ExistsAfterRemove == FALSE

\* os.remove(LOG_CSV); st.success("Log cleared.")
\* os.remove raises FileNotFoundError on a missing file, and nothing catches it
ClearRemove(s) ==
    /\ pc[s] = "clear_remove"
    /\ IF fileExists
       THEN /\ fileExists' = ExistsAfterRemove
            /\ fileRows' = IF ExistsAfterRemove THEN fileRows ELSE <<>>
            /\ logged' = IF ExistsAfterRemove THEN logged ELSE <<>>
            /\ orphan' = [t \in Sessions |->
                            IF pc[t] \in {"create_write", "create_row", "append_write"}
                            THEN TRUE ELSE orphan[t]]
            /\ ev' = [ev EXCEPT ![s] = Append(@, "cleared")]
            /\ pc' = [pc EXCEPT ![s] = "idle"]
            /\ EndRun(s)
       ELSE /\ Uncaught(s)
            /\ UNCHANGED <<fileExists, fileRows, logged, orphan>>
    /\ UNCHANGED <<button, probe>>

(***************************************************************************)
(* Specifications.                                                         *)
(***************************************************************************)
NoProbe == [fn |-> "none"]

\* a row save_prediction wrote in an earlier run of the app
EarlierRow ==
    RowLine(1, <<"z">>, HindiMultilingual, <<"j","o","y">>, 2,
            << [label |-> <<"j","o","y">>, score |-> 2] >>)

InitSessions ==
    /\ pc = [s \in Sessions |-> "idle"]
    /\ button = [s \in Sessions |-> "none"]
    /\ prevButton = [s \in Sessions |-> "none"]
    /\ lang = [s \in Sessions |-> NoLang]
    /\ text = [s \in Sessions |-> NoText]
    /\ model_name = [s \in Sessions |-> ""]
    /\ preds_sorted = [s \in Sessions |-> <<>>]
    /\ emoji = [s \in Sessions |-> ""]
    /\ row = [s \in Sessions |-> <<>>]
    /\ fpos = [s \in Sessions |-> 0]
    /\ orphan = [s \in Sessions |-> FALSE]
    /\ ev = [s \in Sessions |-> <<>>]

\* no log file yet
NoLog ==
    /\ fileExists = FALSE
    /\ fileRows = <<>>
    /\ logged = <<>>

\* the log an earlier run of the app left behind: none, or the header and one row
InitLog ==
    \/ NoLog
    \/ /\ fileExists = TRUE
       /\ fileRows = <<HeaderLine, EarlierRow>>
       /\ logged = <<EarlierRow>>

Init == InitSessions /\ InitLog /\ probe = NoProbe

Joy == <<"j","o","y">>
Sadness == <<"s","a","d","n","e","s","s">>
Anger == <<"a","n","g","e","r">>
Fear == <<"f","e","a","r">>

\* the run of a single session: a button was clicked, or another widget changed
SingleButtons == {"none", "predict", "clear"}

\* what the text area holds in the runs of a single session
SingleTexts == { <<>>, <<Space, Newline>>, <<"a", Comma, Quote, Newline, "b">> }

\* what the model returns in the runs of a single session
SinglePreds ==
    { << [label |-> Sadness, score |-> 1], [label |-> Joy, score |-> 2],
         [label |-> Anger, score |-> 1], [label |-> Fear, score |-> 0] >> }

\* the same, for sessions running side by side: each session has its own text
SharedButtons == {"predict", "clear"}
SharedLangs == {EnglishFast}
SharedTexts(s) == { <<Space>>, IF s = 1 THEN <<"a">> ELSE <<"b">> }
SharedPreds == { << [label |-> Sadness, score |-> 0], [label |-> Joy, score |-> 2] >> }
SharedTimes == {1}

Step(s, Buttons, Langs, Texts, Preds, Times, maxRows) ==
    \/ StartRun(s, Buttons, Langs, Texts, maxRows)
    \/ PredictEmpty(s)
    \/ PredictFails(s)
    \/ Predict(s, Preds, Times)
    \/ SaveCheck(s)
    \/ CreateOpen(s)
    \/ CreateWrite(s)
    \/ CreateRow(s)
    \/ AppendOpen(s)
    \/ AppendWrite(s)
    \/ DispCheck(s)
    \/ DispRead(s)
    \/ DispDownload(s)
    \/ ClearCheck(s)
    \/ ClearRemove(s)

\* sessions side by side, one log file
Next ==
    \E s \in Sessions :
        Step(s, SharedButtons, SharedLangs, SharedTexts(s), SharedPreds, SharedTimes,
             MaxSharedRows)

Spec == Init /\ [][Next]_vars

\* one session
NextSingle ==
    Step(1, SingleButtons, LangOptions, SingleTexts, SinglePreds, 1..MaxTime, MaxRows)

SpecSingle == Init /\ [][NextSingle]_vars

(***************************************************************************)
(* The pure functions applied on their own: the argument is chosen by      *)
(* Init, the one step applies the function.                                *)
(***************************************************************************)
\* the six labels of the English model, in the order of its classes
RankLabels == <<Sadness, Joy, <<"l","o","v","e">>, Anger, Fear,
                <<"s","u","r","p","r","i","s","e">> >>

\* what the model can return: one pair per class, any scores
RankInputs ==
    UNION { { [i \in 1..n |-> [label |-> RankLabels[i], score |-> f[i]]] :
                f \in [1..n -> 0..MaxScore] } : n \in 1..MaxPreds }

InitRank ==
    /\ InitSessions
    /\ NoLog
    /\ probe \in { [fn |-> "rank", arg |-> p, done |-> FALSE,
                    out |-> [sorted |-> <<>>, top3 |-> <<>>]] : p \in RankInputs }

\* preds_sorted = sorted(...); top3 = preds_sorted[:3]; top = top3[0]
ApplyRank ==
    /\ probe.fn = "rank"
    /\ ~probe.done
    /\ probe' = [probe EXCEPT !.done = TRUE,
                              !.out = [sorted |-> Sorted(probe.arg),
                                       top3 |-> Top3(Sorted(probe.arg))]]
    /\ UNCHANGED <<fileExists, fileRows, pc, button, prevButton, lang, text,
                   model_name, preds_sorted, emoji, row, fpos, orphan, ev, logged>>

SpecRank == InitRank /\ [][ApplyRank]_vars

LabelAlphabet == {"s", "a", "d", "S", "A", "D", "j", "o", "y", "J", LongS, "/"}

InitEmoji ==
    /\ InitSessions
    /\ NoLog
    /\ probe \in { [fn |-> "emoji", arg |-> l, done |-> FALSE,
                    out |-> [plain |-> "", up |-> "", low |-> ""]] :
                   l \in SeqsUpTo(LabelAlphabet, MaxLabelLen) }

\* label_to_emoji of a label, of its upper-case form and of its lower-case form
ApplyEmoji ==
    /\ probe.fn = "emoji"
    /\ ~probe.done
    /\ probe' = [probe EXCEPT !.done = TRUE,
                              !.out = [plain |-> label_to_emoji(probe.arg),
                                       up |-> label_to_emoji(upper(probe.arg)),
                                       low |-> label_to_emoji(lower(probe.arg))]]
    /\ UNCHANGED <<fileExists, fileRows, pc, button, prevButton, lang, text,
                   model_name, preds_sorted, emoji, row, fpos, orphan, ev, logged>>

SpecEmoji == InitEmoji /\ [][ApplyEmoji]_vars

\* language choices, the two options of the selectbox among them
LangCandidates ==
    { EnglishFast, HindiMultilingual, English, <<>>,
      <<"e","n","g","l","i","s","h"," ","(","f","a","s","t",")">>,
      <<"E","n","g">>, <<" ">> \o English, <<"H","i","n","d","i">> }

TextAlphabet == {"a", Space, Comma, Quote, Newline}

InitSelect ==
    /\ InitSessions
    /\ NoLog
    /\ probe \in { [fn |-> "select", arg |-> [lang |-> l, text |-> t],
                    done |-> FALSE, out |-> ""] :
                   l \in LangCandidates, t \in SeqsUpTo(TextAlphabet, MaxTextLen) }

\* model_name = EN_MODEL if lang.startswith("English") else MULTI_MODEL
ApplySelect ==
    /\ probe.fn = "select"
    /\ ~probe.done
    /\ probe' = [probe EXCEPT !.done = TRUE, !.out = SelectModel(probe.arg.lang)]
    /\ UNCHANGED <<fileExists, fileRows, pc, button, prevButton, lang, text,
                   model_name, preds_sorted, emoji, row, fpos, orphan, ev, logged>>

SpecSelect == InitSelect /\ [][ApplySelect]_vars

(***************************************************************************)
(* Properties.                                                             *)
(***************************************************************************)
Writing(s) == pc[s] \in {"create_write", "create_row", "append_write"}

Running(s) == pc[s] # "idle"

\* C1 (SpecSingle): whenever the session is not in the middle of a write, the
\* log is absent with nothing logged since the last clear, or it is the header
\* line followed by the lines of the successful predictions since the last
\* clear, in their order; and a step that makes the log lose or change a line
\* it had is the os.remove of the clear button, never a step of a prediction.
C1_LogIsHeaderThenRows ==
    /\ [](~Writing(1) =>
            IF fileExists THEN fileRows = <<HeaderLine>> \o logged /\ logged # <<>>
            ELSE fileRows = <<>> /\ logged = <<>>)
    /\ [][(~IsPrefix(fileRows, fileRows') \/ (fileExists /\ ~fileExists'))
            => pc[1] = "clear_remove"]_vars

C1_Witness ==
    /\ pc[1] = "idle"
    /\ fileExists
    /\ Len(logged) = 2
    /\ fileRows = <<HeaderLine>> \o logged
    /\ logged[1] # logged[2]

AllWhitespace(txt) == \A i \in 1..Len(txt) : txt[i] \in {Space, Tab, Newline}

\* C2 (SpecSingle): in a run started by the predict button with an empty or
\* whitespace-only text, the predict section shows the warning and nothing
\* else (no inference call, no save_prediction call), and no step of the run
\* changes the log file.
C2_EmptyInputOnlyWarns ==
    /\ [](Running(1) /\ button[1] = "predict" /\ AllWhitespace(text[1])
            => /\ ~Writing(1) /\ pc[1] \notin {"save_check", "create_open", "append_open"}
               /\ Range(ev[1]) \cap {"infer", "show", "save", "saved", "exception"} = {}
               /\ pc[1] # "predict" => ev[1][1] = "warning")
    /\ [][Running(1) /\ button[1] = "predict" /\ AllWhitespace(text[1])
            => UNCHANGED <<fileExists, fileRows>>]_vars

C2_Witness ==
    /\ pc[1] = "disp_read"
    /\ button[1] = "predict"
    /\ text[1] = <<Space, Newline>>
    /\ ev[1] = <<"warning">>
    /\ Len(fileRows) = 2

JustSaved(s) == pc[s] = "disp_check" /\ ev[s] # <<>> /\ Last(ev[s]) = "saved"

RowLost == \E s \in Sessions : row[s] \notin Range(fileRows)

HeaderAfterData == \E i \in 2..Len(fileRows) : fileRows[i] = HeaderLine

HeaderThenBothRows ==
    /\ fileExists
    /\ Len(fileRows) = 3
    /\ fileRows[1] = HeaderLine
    /\ {fileRows[2], fileRows[3]} = {row[1], row[2]}

\* C3 (Spec): when two sessions have both found the log missing, both taken
\* the create-with-header branch and both finished save_prediction, the log is
\* not the header followed by both rows: a row is missing from it, or a header
\* stands behind the first line.
C3_RaceCorruptsLog ==
    (\A s \in Sessions : JustSaved(s) /\ "create" \in Range(ev[s]))
        => /\ ~HeaderThenBothRows
           /\ RowLost \/ HeaderAfterData

C3_Witness ==
    /\ \A s \in Sessions : JustSaved(s) /\ "create" \in Range(ev[s])
    /\ row[1] # row[2]
    /\ fileExists
    /\ Len(fileRows) = 2

\* C4 (SpecSingle): a finished clear leaves the log absent and ends with
\* "cleared" when the file was there and with the "no log file" note when it
\* was not; a clear that follows a clear finds no file during its whole run,
\* ends with the note, never with an exception, and changes nothing.
C4_ClearIdempotent ==
    /\ [](/\ (pc[1] = "idle" /\ button[1] = "clear")
               => /\ ~fileExists /\ fileRows = <<>>
                  /\ Last(ev[1]) \in {"cleared", "no_log_file"}
                  /\ prevButton[1] = "clear" => Last(ev[1]) = "no_log_file"
          /\ (button[1] = "clear" /\ prevButton[1] = "clear") => ~fileExists)
    /\ [][(button[1] = "clear" /\ Running(1) /\ pc'[1] = "idle")
            => Last(ev'[1]) = (IF fileExists THEN "cleared" ELSE "no_log_file")]_vars

C4_Witness ==
    /\ pc[1] = "idle"
    /\ button[1] = "clear"
    /\ prevButton[1] = "clear"
    /\ ev[1] = <<"no_predictions", "no_log_file">>

IsMaxScore(x, ps) == \A i \in 1..Len(ps) : x.score >= ps[i].score

\* the place of x in ps
Place(ps, x) == CHOOSE i \in 1..Len(ps) : ps[i] = x

\* C5 (SpecRank): the ranked list is a permutation of the model's list, its
\* scores do not increase, elements of equal score keep the order they had in
\* the model's list, top3 is its first min(3, n) elements and top, its first
\* element, has the largest score.
C5_RankingStableDescending ==
    probe.done =>
        LET in == probe.arg
            out == probe.out.sorted
            top3 == probe.out.top3
        IN /\ Len(out) = Len(in)
           /\ \A i \in 1..Len(in) : \E j \in 1..Len(out) : out[j] = in[i]
           /\ \A i, j \in 1..Len(out) : i < j => out[i].score >= out[j].score
           /\ \A i, j \in 1..Len(out) :
                 (i < j /\ out[i].score = out[j].score)
                     => Place(in, out[i]) < Place(in, out[j])
           /\ Len(top3) = (IF Len(in) < 3 THEN Len(in) ELSE 3)
           /\ \A i \in 1..Len(top3) : top3[i] = out[i]
           /\ IsMaxScore(top3[1], in)

C5_Witness ==
    /\ probe.done
    /\ Len(probe.arg) = 4
    /\ probe.arg[1].score = 1 /\ probe.arg[2].score = 2
    /\ probe.arg[3].score = 1 /\ probe.arg[4].score = 2
    /\ probe.out.sorted = <<probe.arg[2], probe.arg[4], probe.arg[1], probe.arg[3]>>
    /\ probe.out.top3 = <<probe.arg[2], probe.arg[4], probe.arg[1]>>

\* C6 (SpecSingle): right after a prediction is saved, the cells read back
\* from the last line of the log are the input text, the language choice, the
\* label and the score of the first element of the ranked list, and a JSON text
\* that decodes to the ranked list as displayed.
C6_RowRoundTrip ==
    JustSaved(1) =>
        LET cells == CsvReadLine(Last(fileRows))
        IN /\ Len(cells) = 6
           /\ cells[2] = text[1]
           /\ cells[3] = lang[1]
           /\ cells[4] = preds_sorted[1][1].label
           /\ ParseFloat(cells[5]) = preds_sorted[1][1].score
           /\ JsonLoads(cells[6]) = preds_sorted[1]

C6_Witness ==
    /\ JustSaved(1)
    /\ text[1] = <<"a", Comma, Quote, Newline, "b">>
    /\ lang[1] = HindiMultilingual
    /\ Len(preds_sorted[1]) = 4
    /\ preds_sorted[1][1].label = Joy
    /\ Len(fileRows) = 3

HasEnglishPrefix(l) ==
    /\ Len(l) >= 7
    /\ l[1] = "E" /\ l[2] = "n" /\ l[3] = "g" /\ l[4] = "l"
    /\ l[5] = "i" /\ l[6] = "s" /\ l[7] = "h"

\* C7 (SpecSelect): whatever the text, the English option gives the English
\* model, the Hindi / Multilingual option gives the multilingual model, and so
\* does every choice that does not begin with "English".
C7_ModelFromLanguageAlone ==
    probe.done =>
        /\ probe.arg.lang = EnglishFast => probe.out = EN_MODEL
        /\ probe.arg.lang = HindiMultilingual => probe.out = MULTI_MODEL
        /\ ~HasEnglishPrefix(probe.arg.lang) => probe.out = MULTI_MODEL
        /\ probe.out \in {EN_MODEL, MULTI_MODEL}

C7_Witness ==
    /\ probe.done
    /\ probe.arg.lang = HindiMultilingual
    /\ probe.arg.text = <<"a", "a">>
    /\ probe.out = MULTI_MODEL

\* the glyph the fixed mapping gives for the lower-case form of a label
MappedGlyph(label, glyph) ==
    /\ \A i \in DOMAIN EMOJI_KEYS : lower(label) = EMOJI_KEYS[i] => glyph = EMOJI_VALUES[i]
    /\ lower(label) \notin Range(EMOJI_KEYS) => glyph = DefaultEmoji

InDisplay(s) == pc[s] \in {"disp_check", "disp_read", "disp_download"}

ReadFails(s) ==
    \/ pc[s] = "disp_read" /\ (~fileExists \/ fileRows = <<>>)
    \/ pc[s] = "disp_download" /\ ~fileExists

\* C9 (Spec): every step of a session's log display goes on within the display
\* or on to the clear-button section, never to an exception; a read that fails
\* - the file removed or emptied by another session after the existence check -
\* shows the "could not load" message and goes on to the clear-button section.
C9_DisplayNeverCrashes ==
    [][\A s \in Sessions :
          (InDisplay(s) /\ pc'[s] # pc[s])
              => /\ pc'[s] \in {"disp_read", "disp_download", "clear_section"}
                 /\ "exception" \notin Range(ev'[s])
                 /\ ReadFails(s) => /\ ev'[s] = Append(ev[s], "could_not_load")
                                    /\ pc'[s] = "clear_section"]_vars

C9_Witness ==
    \E s \in Sessions :
        /\ pc[s] = "clear_section"
        /\ Last(ev[s]) = "could_not_load"
        /\ ~fileExists

\* C10 as stated (Spec): every finished clear ended with "cleared" or with the
\* "no log file" note.
C10_ClearNeverErrors ==
    \A s \in Sessions :
        (pc[s] = "idle" /\ button[s] = "clear")
            => Last(ev[s]) \in {"cleared", "no_log_file"}

====
